---- MODULE Spec2Model ----
(***************************************************************************)
(* Model of streamlit_app.py: three cached source adapters                 *)
(* (search_semantic_scholar, search_arxiv, search_pubmed), the cached      *)
(* embedder (embed_texts) and the handler main(), which aggregates,        *)
(* filters, scores, sorts, displays and exports the papers.                *)
(*                                                                         *)
(* Strings the code inspects character by character (the text input) are   *)
(* sequences of one-character strings; a similarity is an integer number   *)
(* of hundredths (0.75 is 75).  A Python dict of a paper is a record with  *)
(* the set of its keys (present), the keys whose value is None (null) and  *)
(* the four values (a key that is missing or None carries a filler value). *)
(***************************************************************************)
EXTENDS Integers, Sequences, FiniteSets, TLC

VARIABLES
    user_input,      \* st.text_input value of the current script run
    start_year,      \* st.number_input "Start Year"
    end_year,        \* st.number_input "End Year"
    num_results,     \* st.slider "Papers per Source"
    ss_cache,        \* st.cache_data of search_semantic_scholar: key -> value
    arxiv_cache,     \* st.cache_data of search_arxiv
    pubmed_cache,    \* st.cache_data of search_pubmed
    embed_cache,     \* st.cache_data of embed_texts: the argument lists encoded so far
    net_calls,       \* requests.get calls issued by the current run, in order
    encode_runs,     \* model.encode runs of the current run, in order
    diag,            \* st.error diagnostics rendered by the current run
    ss_papers,       \* main's local ss_papers
    arxiv_papers,    \* main's local arxiv_papers
    pubmed_papers,   \* main's local pubmed_papers
    filtered_papers, \* main's local filtered_papers
    scored_papers,   \* main's local scored_papers (after the sort, when it ran)
    displayed,       \* the result blocks rendered by the display loop
    exported,        \* the rows handed to the CSV download button
    message,         \* the st.warning / st.write status line of the current run
    outcome,         \* how the current run of main ended
    seen,            \* history: parameters of earlier submissions -> their output
    repeated,        \* history: the current run repeats the parameters of an earlier one
    failed           \* history: <<source, cache key>> of every search that failed

vars == <<user_input, start_year, end_year, num_results, ss_cache, arxiv_cache,
          pubmed_cache, embed_cache, net_calls, encode_runs, diag, ss_papers,
          arxiv_papers, pubmed_papers, filtered_papers, scored_papers, displayed,
          exported, message, outcome, seen, repeated, failed>>

\* Largest number of records in one Semantic Scholar response body.
MaxRecs == 1

\* datetime.now().year, the default and the maximum of both year inputs.
CurrentYear == 2021

Fields == {"title", "abstract", "url", "year"}

\* The four ways an external call fails.
FailureKinds == {"network_failure", "timeout", "http_error", "bad_body"}

---------------------------------------------------------------------------
(* Python values                                                           *)

\* A dict with all four keys set to non-None values.
Paper(t, a, u, y) ==
    [present |-> Fields, null |-> {}, title |-> t, abstract |-> a, url |-> u, year |-> y]

\* The same dict with the keys of `gone` missing and the keys of `none` None.
Without(p, gone, none) ==
    [present  |-> p.present \ gone,
     null     |-> (p.null \cup none) \ gone,
     title    |-> IF "title" \in gone \cup none THEN "" ELSE p.title,
     abstract |-> IF "abstract" \in gone \cup none THEN "" ELSE p.abstract,
     url      |-> IF "url" \in gone \cup none THEN "" ELSE p.url,
     year     |-> IF "year" \in gone \cup none THEN 0 ELSE p.year]

\* p[k] raises KeyError exactly when the key is missing.
HasKey(p, k) == k \in p.present

\* p[k] is None.
IsNone(p, k) == k \in p.null

\* bool(p.get("abstract")): a missing key, None and "" are all falsy.
TruthyAbstract(p) == HasKey(p, "abstract") /\ ~IsNone(p, "abstract") /\ p.abstract # ""

\* bool(p.get("year")): a missing key, None and 0 are all falsy.
TruthyYear(p) == HasKey(p, "year") /\ ~IsNone(p, "year") /\ p.year # 0

\* f"{p[k]}" for a string-valued key that is present: None formats as "None".
Format(p, k) ==
    IF IsNone(p, k) THEN "None"
    ELSE IF k = "title" THEN p.title
    ELSE IF k = "abstract" THEN p.abstract
    ELSE p.url

\* s1 + s2 + ... for a sequence of Python lists.
RECURSIVE Concat(_)
Concat(lists) ==
    IF lists = <<>> THEN <<>> ELSE Head(lists) \o Concat(Tail(lists))

---------------------------------------------------------------------------
(* str.strip, str.lower, str.split on sequences of characters              *)

IsSpace(c) == c \in {" ", "\t"}

RECURSIVE lstrip(_)
lstrip(s) ==
    IF s = <<>> THEN <<>>
    ELSE IF IsSpace(Head(s)) THEN lstrip(Tail(s)) ELSE s

RECURSIVE rstrip(_)
rstrip(s) ==
    IF s = <<>> THEN <<>>
    ELSE IF IsSpace(s[Len(s)]) THEN rstrip(SubSeq(s, 1, Len(s) - 1)) ELSE s

\* The text as typed, without the strip.
unstripped(s) == s

strip(s) == rstrip(lstrip(s))

lower(s) == [i \in 1..Len(s) |-> IF s[i] = "A" THEN "a" ELSE IF s[i] = "B" THEN "b" ELSE s[i]]

\* The characters of s joined into one string.
RECURSIVE Join(_)
Join(s) == IF s = <<>> THEN "" ELSE Head(s) \o Join(Tail(s))

\* str.split(): the maximal runs of non-space characters, as strings.
RECURSIVE SplitFrom(_, _)
SplitFrom(s, word) ==
    IF s = <<>> THEN (IF word = <<>> THEN <<>> ELSE <<Join(word)>>)
    ELSE IF IsSpace(Head(s))
         THEN (IF word = <<>> THEN <<>> ELSE <<Join(word)>>) \o SplitFrom(Tail(s), <<>>)
         ELSE SplitFrom(Tail(s), Append(word, Head(s)))

split(s) == SplitFrom(s, <<>>)

---------------------------------------------------------------------------
(* Source adapters.  Each takes the response of the external service and   *)
(* gives the adapter's return value (papers), the requests.get calls it    *)
(* issued (calls), the st.error diagnostics it rendered (errors) and       *)
(* whether an exception left the function (raised).                        *)

\* One requests.get: the endpoint, whether a usable answer came back, and
\* the idlist of an esearch answer.
Call(url, ok, ids) == [url |-> url, ok |-> ok, ids |-> ids]

Returned(papers, calls) ==
    [papers |-> papers, calls |-> calls, errors |-> {}, raised |-> FALSE]

\* An exception that no handler catches leaves the function.
Propagated(source, e, calls) ==
    [papers |-> <<>>, calls |-> calls, errors |-> {}, raised |-> TRUE]

\* The except branch: st.error(...) and return [].
Caught(source, e, calls) ==
    [papers |-> <<>>, calls |-> calls, errors |-> {<<source, e>>}, raised |-> FALSE]

\* A Semantic Scholar response: kind is "ok" or a failure; the body of an
\* "ok" response is a JSON object with or without the key "data".
search_semantic_scholar(resp) ==
    LET calls == <<Call("semantic_scholar", resp.kind = "ok", <<>>)>> IN
    IF resp.kind \in {"network_failure", "timeout"}
    THEN Caught("Semantic Scholar", resp.kind, calls)        \* requests.get raises
    ELSE IF resp.kind = "http_error"
    THEN Caught("Semantic Scholar", resp.kind, calls)        \* raise_for_status raises
    ELSE IF resp.kind = "bad_body"
    THEN Caught("Semantic Scholar", resp.kind, calls)        \* response.json() raises
    ELSE Returned(IF resp.has_data THEN resp.data ELSE <<>>, calls)

\* One atom:entry.  complete: the four child elements are there with text;
\* published_ok: the timestamp matches "%Y-%m-%dT%H:%M:%SZ".
RECURSIVE ArxivEntries(_)
ArxivEntries(entries) ==
    IF entries = <<>> THEN [error |-> "none", papers |-> <<>>]
    ELSE LET e == Head(entries) IN
         IF ~e.complete THEN [error |-> "AttributeError", papers |-> <<>>]
         ELSE IF ~e.published_ok THEN [error |-> "ValueError", papers |-> <<>>]
         ELSE LET rest == ArxivEntries(Tail(entries)) IN
              IF rest.error # "none" THEN rest
              ELSE [error  |-> "none",
                    papers |-> <<Paper(Join(strip(e.title)), Join(strip(e.summary)),
                                       Join(strip(e.id)), e.year)>> \o rest.papers]

search_arxiv(resp) ==
    LET calls == <<Call("arxiv", resp.kind = "ok", <<>>)>> IN
    IF resp.kind \in {"network_failure", "timeout", "http_error"}
    THEN Caught("arXiv", resp.kind, calls)
    ELSE IF resp.kind = "bad_body"
    THEN Caught("arXiv", resp.kind, calls)                   \* ET.fromstring raises
    ELSE LET parsed == ArxivEntries(resp.entries) IN
         IF parsed.error # "none"
         THEN Caught("arXiv", parsed.error, calls)
         ELSE Returned(parsed.papers, calls)

\* One PubmedArticle.  The year and the PMID are read before the test that
\* skips an article without title or abstract element.
RECURSIVE PubmedArticles(_)
PubmedArticles(articles) ==
    IF articles = <<>> THEN [error |-> "none", papers |-> <<>>]
    ELSE LET a == Head(articles) IN
         IF a.date_elem /\ ~a.year_numeric THEN [error |-> "ValueError", papers |-> <<>>]
         ELSE IF ~a.pmid_elem THEN [error |-> "AttributeError", papers |-> <<>>]
         ELSE LET rest == PubmedArticles(Tail(articles)) IN
              IF rest.error # "none" THEN rest
              ELSE IF ~a.title_elem \/ ~a.abstract_elem THEN rest
              ELSE LET p == Paper(a.title, a.abstract,
                                  "https://pubmed.ncbi.nlm.nih.gov/" \o a.pmid \o "/",
                                  a.year)
                       none == (IF a.title_none THEN {"title"} ELSE {})
                               \cup (IF a.abstract_none THEN {"abstract"} ELSE {})
                               \cup (IF a.date_elem THEN {} ELSE {"year"})
                   IN [error |-> "none", papers |-> <<Without(p, {}, none)>> \o rest.papers]

\* `if not ids:` without the test: the fetch is issued whatever the idlist.
no_ids_unchecked(ids) == FALSE

\* `if not ids:`
no_ids(ids) == ids = <<>>

\* A PubMed response: the outcome of esearch with its idlist, and the
\* outcome of efetch with its articles (read only when efetch is called).
search_pubmed(resp) ==
    LET search == <<Call("pubmed_esearch", resp.search = "ok", resp.ids)>>
        both   == Append(search, Call("pubmed_efetch", resp.fetch = "ok", <<>>))
    IN
    IF resp.search \in FailureKinds
    THEN Caught("PubMed", resp.search, search)
    ELSE IF no_ids(resp.ids)
    THEN Returned(<<>>, search)
    ELSE IF resp.fetch \in FailureKinds
    THEN Caught("PubMed", resp.fetch, both)
    ELSE LET parsed == PubmedArticles(resp.articles) IN
         IF parsed.error # "none"
         THEN Caught("PubMed", parsed.error, both)
         ELSE Returned(parsed.papers, both)

\* st.cache_data: a key already in the cache gives the stored value and the
\* function body does not run; otherwise the body runs on the service's
\* response.  A call that raises stores nothing.
CacheHit(value) ==
    [papers |-> value, calls |-> <<>>, errors |-> {}, raised |-> FALSE, hit |-> TRUE]

Ran(r) ==
    [papers |-> r.papers, calls |-> r.calls, errors |-> r.errors, raised |-> r.raised,
     hit |-> FALSE]

\* The search without @st.cache_data.
uncached_search_semantic_scholar(cache, key, responses) ==
    {Ran(search_semantic_scholar(r)) : r \in responses}

cached_search_semantic_scholar(cache, key, responses) ==
    IF key \in DOMAIN cache THEN {CacheHit(cache[key])}
    ELSE {Ran(search_semantic_scholar(r)) : r \in responses}

cached_search_arxiv(cache, key, responses) ==
    IF key \in DOMAIN cache THEN {CacheHit(cache[key])}
    ELSE {Ran(search_arxiv(r)) : r \in responses}

cached_search_pubmed(cache, key, responses) ==
    IF key \in DOMAIN cache THEN {CacheHit(cache[key])}
    ELSE {Ran(search_pubmed(r)) : r \in responses}

\* A cache that keeps no empty result.
StoredUnlessEmpty(cache, key, r) ==
    IF r.hit \/ r.raised \/ r.papers = <<>> THEN cache
    ELSE [k \in DOMAIN cache \cup {key} |-> IF k = key THEN r.papers ELSE cache[k]]

\* The cache after a call with this key.
Stored(cache, key, r) ==
    IF r.hit \/ r.raised THEN cache
    ELSE [k \in DOMAIN cache \cup {key} |-> IF k = key THEN r.papers ELSE cache[k]]

---------------------------------------------------------------------------
(* Embedder and similarity                                                 *)

\* model.encode on one text.  The model is a black box of the program; it
\* is a fixed function from texts to vectors, here vectors of two integers.
Encode(text) ==
    CASE text = "a"        -> <<3, 4>>
      [] text = "b"        -> <<5, 0>>
      [] text = "T1. A1"   -> <<3, 4>>
      [] text = "T2. A2"   -> <<4, 3>>
      [] text = "T3. A3"   -> <<5, 0>>
      [] text = "T4. A4"   -> <<4, 3>>
      [] text = "None. A1" -> <<0, 5>>
      [] OTHER             -> <<-3, 4>>

\* embed_texts under st.cache_data: the vectors, the model.encode runs it
\* made (none on a cache hit) and the cache afterwards.
embed_texts(cache, texts) ==
    [vectors |-> [i \in 1..Len(texts) |-> Encode(texts[i])],
     runs    |-> IF texts \in cache THEN <<>> ELSE <<texts>>,
     cache   |-> cache \cup {texts}]

Dot(a, b) == a[1] * b[1] + a[2] * b[2]

Norm(a) == CHOOSE n \in 0..Dot(a, a) : n * n <= Dot(a, a) /\ (n + 1) * (n + 1) > Dot(a, a)

\* util.pytorch_cos_sim(a, b).item(), in hundredths.
pytorch_cos_sim(a, b) == (Dot(a, b) * 100) \div (Norm(a) * Norm(b))

---------------------------------------------------------------------------
(* The steps of main                                                       *)

\* The condition without the year range.
KeepsAnyYear(p, sy, ey) == TruthyAbstract(p) /\ TruthyYear(p)

\* The condition of the list comprehension that builds filtered_papers.
Keeps(p, sy, ey) == TruthyAbstract(p) /\ TruthyYear(p) /\ sy <= p.year /\ p.year <= ey

\* The filter with a paper that is already in the result left out.
RECURSIVE filter_unique_papers(_, _, _)
filter_unique_papers(all_papers, sy, ey) ==
    IF all_papers = <<>> THEN <<>>
    ELSE LET n    == Len(all_papers)
             rest == filter_unique_papers(SubSeq(all_papers, 1, n - 1), sy, ey)
         IN IF Keeps(all_papers[n], sy, ey)
               /\ \A i \in 1..Len(rest) : rest[i] # all_papers[n]
            THEN Append(rest, all_papers[n]) ELSE rest

\* [p for p in all_papers if ...]
RECURSIVE filter_papers(_, _, _)
filter_papers(all_papers, sy, ey) ==
    IF all_papers = <<>> THEN <<>>
    ELSE (IF Keeps(Head(all_papers), sy, ey) THEN <<Head(all_papers)>> ELSE <<>>)
         \o filter_papers(Tail(all_papers), sy, ey)

\* [f"{p['title']}. {p['abstract']}" for p in filtered_papers]: KeyError on
\* a dict without the key "title".
paper_texts(papers) ==
    IF \E i \in 1..Len(papers) : ~HasKey(papers[i], "title")
    THEN [raised |-> "KeyError", texts |-> <<>>]
    ELSE [raised |-> "none",
          texts  |-> [i \in 1..Len(papers) |->
                        Format(papers[i], "title") \o ". " \o Format(papers[i], "abstract")]]

\* The loop that appends (similarity, paper) for every filtered paper.
score_papers(idea_embedding, papers, paper_embeddings) ==
    [i \in 1..Len(papers) |->
        [similarity |-> pytorch_cos_sim(idea_embedding, paper_embeddings[i]),
         paper      |-> papers[i]]]

\* x goes after every element whose similarity is at least its own.
RECURSIVE InsertDescending(_, _)
InsertDescending(x, s) ==
    IF s = <<>> THEN <<x>>
    ELSE IF Head(s).similarity >= x.similarity
         THEN <<Head(s)>> \o InsertDescending(x, Tail(s))
         ELSE <<x>> \o s

RECURSIVE InsertAscending(_, _)
InsertAscending(x, s) ==
    IF s = <<>> THEN <<x>>
    ELSE IF Head(s).similarity <= x.similarity
         THEN <<Head(s)>> \o InsertAscending(x, Tail(s))
         ELSE <<x>> \o s

\* The sort without reverse=True.
RECURSIVE sort_ascending(_)
sort_ascending(scored) ==
    IF scored = <<>> THEN <<>>
    ELSE InsertAscending(scored[Len(scored)],
                         sort_ascending(SubSeq(scored, 1, Len(scored) - 1)))

\* scored_papers.sort(key=lambda x: x[0], reverse=True): a stable sort.
RECURSIVE sort_scored(_)
sort_scored(scored) ==
    IF scored = <<>> THEN <<>>
    ELSE InsertDescending(scored[Len(scored)],
                          sort_scored(SubSeq(scored, 1, Len(scored) - 1)))

\* highlight_keywords raises TypeError when re.sub gets None as the text,
\* which needs at least one keyword.
highlight_raises(is_none, keywords) == is_none /\ keywords # <<>>

Colour(similarity) ==
    IF similarity >= 75 THEN "green" ELSE IF similarity >= 40 THEN "orange" ELSE "red"

\* The display loop: the blocks rendered, and the exception that ended it.
RECURSIVE display(_, _)
display(scored, keywords) ==
    IF scored = <<>> THEN [raised |-> "none", shown |-> <<>>]
    ELSE LET paper == Head(scored).paper IN
         IF highlight_raises(IsNone(paper, "title"), keywords)
         THEN [raised |-> "TypeError", shown |-> <<>>]
         ELSE IF highlight_raises(IsNone(paper, "abstract"), keywords)
         THEN [raised |-> "TypeError", shown |-> <<>>]
         ELSE IF ~HasKey(paper, "url")
         THEN [raised |-> "KeyError", shown |-> <<>>]
         ELSE LET rest == display(Tail(scored), keywords) IN
              [raised |-> rest.raised,
               shown  |-> <<[similarity |-> Head(scored).similarity,
                             paper      |-> paper,
                             colour     |-> Colour(Head(scored).similarity)]>>
                          \o rest.shown]

\* The rows of the DataFrame behind the CSV download.
export_rows(scored) ==
    [i \in 1..Len(scored) |->
        [Title      |-> Format(scored[i].paper, "title"),
         Abstract   |-> Format(scored[i].paper, "abstract"),
         Year       |-> scored[i].paper.year,
         URL        |-> Format(scored[i].paper, "url"),
         Similarity |-> scored[i].similarity]]

NoMessage == [kind |-> "none", text |-> "", count |-> 0]
EmptyQueryWarning ==
    [kind |-> "warning", text |-> "Please enter a valid research idea.", count |-> 0]
NoPapersWarning ==
    [kind |-> "warning", text |-> "No papers found in the selected year range.", count |-> 0]
PapersFound(n) == [kind |-> "write", text |-> "Showing papers from", count |-> n]

\* `if not filtered_papers:` without the test.
no_papers_unchecked(filtered) == FALSE

\* `if not filtered_papers:`
no_papers(filtered) == filtered = <<>>

\* Everything main computes after the three searches returned.
rank(query, sy, ey, all_papers, cache) ==
    LET idea     == embed_texts(cache, <<Join(query)>>)
        filtered == filter_papers(all_papers, sy, ey)
        texts    == paper_texts(filtered)
        papers   == embed_texts(idea.cache, texts.texts)
        scored   == sort_scored(score_papers(idea.vectors[1], filtered, papers.vectors))
        shown    == display(scored, split(lower(query)))
        base     == [filtered |-> filtered, scored |-> <<>>, displayed |-> <<>>,
                     exported |-> <<>>, runs |-> idea.runs, cache |-> idea.cache,
                     message |-> NoMessage, outcome |-> "ranked"]
    IN
    IF no_papers(filtered)
    THEN [base EXCEPT !.message = NoPapersWarning, !.outcome = "no_results"]
    ELSE IF texts.raised # "none"
    THEN [base EXCEPT !.outcome = texts.raised]
    ELSE IF shown.raised # "none"
    THEN [base EXCEPT !.scored = scored, !.displayed = shown.shown,
                      !.runs = idea.runs \o papers.runs, !.cache = papers.cache,
                      !.message = PapersFound(Len(scored)), !.outcome = shown.raised]
    ELSE [base EXCEPT !.scored = scored, !.displayed = shown.shown,
                      !.exported = export_rows(scored),
                      !.runs = idea.runs \o papers.runs, !.cache = papers.cache,
                      !.message = PapersFound(Len(scored))]

---------------------------------------------------------------------------
(* main                                                                    *)

\* A search that main never reached.
NotCalled ==
    [papers |-> <<>>, calls |-> <<>>, errors |-> {}, raised |-> FALSE, hit |-> TRUE]

\* `if user_input:` is false: main does nothing.
Idle ==
    /\ UNCHANGED <<ss_cache, arxiv_cache, pubmed_cache, embed_cache>>
    /\ net_calls' = <<>> /\ encode_runs' = <<>> /\ diag' = {}
    /\ ss_papers' = <<>> /\ arxiv_papers' = <<>> /\ pubmed_papers' = <<>>
    /\ filtered_papers' = <<>> /\ scored_papers' = <<>>
    /\ displayed' = <<>> /\ exported' = <<>>
    /\ message' = NoMessage
    /\ outcome' = "idle"

\* `if not query:` is true: the warning, and return.
Rejected ==
    /\ UNCHANGED <<ss_cache, arxiv_cache, pubmed_cache, embed_cache>>
    /\ net_calls' = <<>> /\ encode_runs' = <<>> /\ diag' = {}
    /\ ss_papers' = <<>> /\ arxiv_papers' = <<>> /\ pubmed_papers' = <<>>
    /\ filtered_papers' = <<>> /\ scored_papers' = <<>>
    /\ displayed' = <<>> /\ exported' = <<>>
    /\ message' = EmptyQueryWarning
    /\ outcome' = "empty_query"

\* The query embedding, the three searches (ss, ax, pm are what they gave)
\* and the rest of main.  An exception leaving a search ends main there.
Searched(query, sy, ey, key, ss, ax, pm) ==
    /\ ss_cache' = Stored(ss_cache, key, ss)
    /\ arxiv_cache' = Stored(arxiv_cache, key, ax)
    /\ pubmed_cache' = Stored(pubmed_cache, key, pm)
    /\ net_calls' = ss.calls \o ax.calls \o pm.calls
    /\ diag' = ss.errors \cup ax.errors \cup pm.errors
    /\ ss_papers' = ss.papers
    /\ arxiv_papers' = ax.papers
    /\ pubmed_papers' = pm.papers
    /\ IF ss.raised \/ ax.raised \/ pm.raised
       THEN \E idea \in {embed_texts(embed_cache, <<Join(query)>>)} :
            /\ embed_cache' = idea.cache
            /\ encode_runs' = idea.runs
            /\ filtered_papers' = <<>> /\ scored_papers' = <<>>
            /\ displayed' = <<>> /\ exported' = <<>>
            /\ message' = NoMessage
            /\ outcome' = "adapter_exception"
       ELSE \E r \in {rank(query, sy, ey, Concat(<<ss.papers, ax.papers, pm.papers>>),
                           embed_cache)} :
            /\ embed_cache' = r.cache
            /\ encode_runs' = r.runs
            /\ filtered_papers' = r.filtered
            /\ scored_papers' = r.scored
            /\ displayed' = r.displayed
            /\ exported' = r.exported
            /\ message' = r.message
            /\ outcome' = r.outcome

\* One run of main with the widgets at ui, sy, ey, n; the services answer a
\* search that is not served from the cache with one of the given responses.
main(ui, sy, ey, n, ss_responses, arxiv_responses, pubmed_responses) ==
    LET query == strip(ui)
        key   == <<Join(query), n>>
    IN
    /\ user_input' = ui
    /\ start_year' = sy
    /\ end_year' = ey
    /\ num_results' = n
    /\ IF ui = <<>> THEN Idle
       ELSE IF query = <<>> THEN Rejected
       ELSE \E ss \in cached_search_semantic_scholar(ss_cache, key, ss_responses) :
            \E ax \in (IF ss.raised THEN {NotCalled}
                       ELSE cached_search_arxiv(arxiv_cache, key, arxiv_responses)) :
            \E pm \in (IF ss.raised \/ ax.raised THEN {NotCalled}
                       ELSE cached_search_pubmed(pubmed_cache, key, pubmed_responses)) :
                Searched(query, sy, ey, key, ss, ax, pm)

\* The parameters of the current run and what it showed.
Params == <<user_input, start_year, end_year, num_results>>

Output ==
    [outcome |-> outcome, message |-> message, scored |-> scored_papers,
     displayed |-> displayed, exported |-> exported]

\* The cache key of the three searches of the current run.
Key == <<Join(strip(user_input)), num_results>>

\* The history keeps the output of the first submission of each parameter
\* tuple, and the source and key of every search that ended in its except
\* branch.
Remember ==
    /\ seen' = IF Params' \in DOMAIN seen THEN seen
               ELSE [q \in DOMAIN seen \cup {Params'} |->
                       IF q = Params' THEN Output' ELSE seen[q]]
    /\ repeated' = (Params' \in DOMAIN seen)
    /\ failed' = failed \cup {<<d[1], Key'>> : d \in diag'}

\* The module before main runs: the widgets at their defaults, empty caches.
Init ==
    /\ user_input = <<>>
    /\ start_year = 2000
    /\ end_year = CurrentYear
    /\ num_results = 20
    /\ ss_cache = <<>> /\ arxiv_cache = <<>> /\ pubmed_cache = <<>>
    /\ embed_cache = {}
    /\ net_calls = <<>> /\ encode_runs = <<>> /\ diag = {}
    /\ ss_papers = <<>> /\ arxiv_papers = <<>> /\ pubmed_papers = <<>>
    /\ filtered_papers = <<>> /\ scored_papers = <<>>
    /\ displayed = <<>> /\ exported = <<>>
    /\ message = NoMessage
    /\ outcome = "init"
    /\ seen = <<>>
    /\ repeated = FALSE
    /\ failed = {}

---------------------------------------------------------------------------
(* Inputs                                                                  *)

P1 == Paper("T1", "A1", "u1", 2021)
P2 == Paper("T2", "A2", "u2", 2020)
P3 == Paper("T3", "A3", "u3", 2018)

\* Records of a Semantic Scholar body: complete ones, and P1 with one field
\* missing or null.
SSRecords ==
    {P1, P2, P3,
     Without(P1, {"title"}, {}), Without(P1, {}, {"title"}),
     Without(P1, {"abstract"}, {}), Without(P1, {}, {"abstract"}),
     Without(P1, {"year"}, {}), Without(P1, {}, {"year"}),
     Without(P1, {"url"}, {}), Without(P1, {}, {"url"})}

RECURSIVE SeqsUpTo(_, _)
SeqsUpTo(S, n) ==
    IF n = 0 THEN {<<>>}
    ELSE LET shorter == SeqsUpTo(S, n - 1) IN
         shorter \cup {Append(s, x) : s \in shorter, x \in S}

Failed(kind) == [kind |-> kind, has_data |-> FALSE, data |-> <<>>, entries |-> <<>>]

SSResponses ==
    {Failed(k) : k \in FailureKinds}
    \cup {[kind |-> "ok", has_data |-> FALSE, data |-> <<>>, entries |-> <<>>]}
    \cup {[kind |-> "ok", has_data |-> TRUE, data |-> d, entries |-> <<>>] :
            d \in SeqsUpTo(SSRecords, MaxRecs)}

\* arXiv entries: E1 is the paper P1; one entry lacks a child element, one
\* has a timestamp in another format.
E1 == [complete |-> TRUE, published_ok |-> TRUE, title |-> <<" ", "T", "1", " ">>,
       summary |-> <<"A", "1">>, id |-> <<"u", "1">>, year |-> 2021]
EIncomplete == [E1 EXCEPT !.complete = FALSE]
EBadDate == [E1 EXCEPT !.published_ok = FALSE]

ArxivResponses ==
    {Failed(k) : k \in FailureKinds}
    \cup {[kind |-> "ok", has_data |-> FALSE, data |-> <<>>, entries |-> e] :
            e \in {<<>>, <<E1>>, <<E1, E1>>, <<E1, EIncomplete>>, <<EBadDate>>}}

A4 == [title_elem |-> TRUE, title_none |-> FALSE, title |-> "T4",
       abstract_elem |-> TRUE, abstract_none |-> FALSE, abstract |-> "A4",
       date_elem |-> TRUE, year_numeric |-> TRUE, year |-> 2020,
       pmid_elem |-> TRUE, pmid |-> "4"]
ANoAbstract == [A4 EXCEPT !.abstract_elem = FALSE]
ANoYear == [A4 EXCEPT !.date_elem = FALSE]
ANullTitle == [A4 EXCEPT !.title_none = TRUE]
ANoPmid == [A4 EXCEPT !.pmid_elem = FALSE]
ABadYear == [A4 EXCEPT !.year_numeric = FALSE]

PubmedResponses ==
    {[search |-> k, ids |-> <<>>, fetch |-> "ok", articles |-> <<>>] : k \in FailureKinds}
    \cup {[search |-> "ok", ids |-> <<>>, fetch |-> "ok", articles |-> <<>>]}
    \cup {[search |-> "ok", ids |-> <<"4">>, fetch |-> k, articles |-> <<>>] :
            k \in FailureKinds}
    \cup {[search |-> "ok", ids |-> <<"4">>, fetch |-> "ok", articles |-> a] :
            a \in {<<>>, <<A4>>, <<A4, ANoAbstract>>, <<ANoYear, A4>>, <<ANullTitle>>,
                   <<A4, ANoPmid>>, <<ABadYear>>}}

UserInputs == {<<>>, <<" ", "\t">>, <<"a">>}

YearRanges == {<<2000, CurrentYear>>, <<2020, 2021>>, <<2021, 2020>>}

\* The pipeline on one query with every response above.
Next ==
    /\ \E ui \in UserInputs, yr \in YearRanges :
          main(ui, yr[1], yr[2], 5, SSResponses, ArxivResponses, PubmedResponses)
    /\ UNCHANGED <<seen, repeated, failed>>

Spec == Init /\ [][Next]_vars

\* Repeated submissions: two spellings of one query and two values of the
\* slider (two cache keys), two year ranges, and per source a failure and a
\* success.
CacheQueries == {<<<<"a">>, 5>>, <<<<" ", "a">>, 5>>, <<<<"a">>, 10>>}

CacheYearRanges == {<<2000, CurrentYear>>, <<2021, 2021>>}

CacheSSResponses ==
    {Failed("timeout"),
     [kind |-> "ok", has_data |-> TRUE, data |-> <<P2, P1>>, entries |-> <<>>]}

CacheArxivResponses ==
    {Failed("http_error"),
     [kind |-> "ok", has_data |-> FALSE, data |-> <<>>, entries |-> <<E1>>]}

CachePubmedResponses ==
    {[search |-> "network_failure", ids |-> <<>>, fetch |-> "ok", articles |-> <<>>],
     [search |-> "ok", ids |-> <<>>, fetch |-> "ok", articles |-> <<>>],
     [search |-> "ok", ids |-> <<"4">>, fetch |-> "ok", articles |-> <<A4>>]}

NextCache ==
    /\ \E q \in CacheQueries, yr \in CacheYearRanges :
          main(q[1], yr[1], yr[2], q[2], CacheSSResponses, CacheArxivResponses,
               CachePubmedResponses)
    /\ Remember

SpecCache == Init /\ [][NextCache]_vars

---------------------------------------------------------------------------
(* Properties                                                              *)

\* main went past the blank-query tests and ran the three searches.
Searching == outcome \notin {"init", "idle", "empty_query"}

\* The papers the three searches gave, in the order main concatenates them.
AllPapers == ss_papers \o arxiv_papers \o pubmed_papers

PapersOf(source) ==
    IF source = "Semantic Scholar" THEN ss_papers
    ELSE IF source = "arXiv" THEN arxiv_papers
    ELSE pubmed_papers

\* The paper has an abstract and a year, and the year is in the range of the
\* two year inputs.
Complete(p) ==
    /\ "abstract" \in p.present /\ "abstract" \notin p.null /\ p.abstract # ""
    /\ "year" \in p.present /\ "year" \notin p.null /\ p.year # 0
    /\ start_year <= p.year /\ p.year <= end_year

\* The source a request goes to.
SourceOf(url) ==
    IF url = "semantic_scholar" THEN "Semantic Scholar"
    ELSE IF url = "arxiv" THEN "arXiv"
    ELSE "PubMed"

Occurrences(p, s) == Cardinality({i \in 1..Len(s) : s[i] = p})

RankedPapers == [i \in 1..Len(scored_papers) |-> scored_papers[i].paper]

\* C1: a search whose external call fails (network failure, timeout, non-2xx
\* status, unparsable body) gives the empty list and leaves no exception in
\* main, and every complete paper of the other searches of the run is still
\* in the filtered list, and in the ranked list when main ranks.
C1_FailureIsolated ==
    \A c \in 1..Len(net_calls) :
        ~net_calls[c].ok =>
            /\ PapersOf(SourceOf(net_calls[c].url)) = <<>>
            /\ outcome # "adapter_exception"
            /\ \A i \in 1..Len(AllPapers) :
                  Complete(AllPapers[i]) =>
                     /\ Occurrences(AllPapers[i], filtered_papers) >= 1
                     /\ outcome = "ranked" => Occurrences(AllPapers[i], RankedPapers) >= 1

\* Two searches failed in different ways and the third one's papers are ranked.
C1_Witness ==
    /\ <<"Semantic Scholar", "timeout">> \in diag
    /\ <<"PubMed", "bad_body">> \in diag
    /\ \E c \in 1..Len(net_calls) : net_calls[c].url = "pubmed_esearch" /\ ~net_calls[c].ok
    /\ arxiv_papers # <<>>
    /\ outcome = "ranked"
    /\ RankedPapers = arxiv_papers

\* C2: every paper of the filtered list, of the ranked list, of the display
\* and of the export has an abstract, a year, and a year within
\* [start_year, end_year].
C2_OnlyCompleteInRange ==
    /\ \A i \in 1..Len(filtered_papers) : Complete(filtered_papers[i])
    /\ \A i \in 1..Len(scored_papers) : Complete(scored_papers[i].paper)
    /\ \A i \in 1..Len(displayed) : Complete(displayed[i].paper)
    /\ \A i \in 1..Len(exported) :
          exported[i].Abstract # "" /\ start_year <= exported[i].Year
          /\ exported[i].Year <= end_year

\* A paper of 2018 came back for the range 2020-2021 and another paper is ranked.
C2_Witness ==
    /\ outcome = "ranked"
    /\ start_year = 2020
    /\ \E i \in 1..Len(AllPapers) : AllPapers[i] = P3
    /\ \E i \in 1..Len(AllPapers) : "year" \in AllPapers[i].null
    /\ scored_papers # <<>>

\* C3: the ranked list is in descending order of similarity, and when main
\* completes, the display and the export carry it in the same order.
C3_SortedDescending ==
    /\ \A i \in 1..(Len(scored_papers) - 1) :
          scored_papers[i].similarity >= scored_papers[i + 1].similarity
    /\ outcome = "ranked" =>
          /\ Len(displayed) = Len(scored_papers)
          /\ Len(exported) = Len(scored_papers)
          /\ \A i \in 1..Len(scored_papers) :
                /\ displayed[i].similarity = scored_papers[i].similarity
                /\ displayed[i].paper = scored_papers[i].paper
                /\ exported[i].Similarity = scored_papers[i].similarity
                /\ exported[i].Title = scored_papers[i].paper.title
                /\ exported[i].Year = scored_papers[i].paper.year

\* The sort moved a paper: the filtered list was not in descending order.
C3_Witness ==
    /\ outcome = "ranked"
    /\ Len(scored_papers) >= 3
    /\ RankedPapers # filtered_papers
    /\ \E i \in 1..(Len(scored_papers) - 1) :
          scored_papers[i].similarity = scored_papers[i + 1].similarity

Urls(calls) == {calls[i].url : i \in 1..Len(calls)}

\* C4: a run whose parameters (text, year range, papers per source) are those
\* of an earlier run issues no request and runs the model on nothing, and it
\* shows what the earlier run showed.
C4_RepeatServedFromCache ==
    repeated =>
        /\ net_calls = <<>>
        /\ encode_runs = <<>>
        /\ Output = seen[Params]

\* A repeated submission shows at least two ranked papers without a request.
C4_Witness ==
    /\ repeated
    /\ outcome = "ranked"
    /\ Len(scored_papers) >= 2
    /\ net_calls = <<>>

\* C5 as claimed: every blank text (empty or whitespace only) is rejected
\* with the empty-query warning, before any request and any embedding.
C5_BlankGetsWarning ==
    (outcome # "init" /\ strip(user_input) = <<>>) =>
        /\ net_calls = <<>>
        /\ encode_runs = <<>>
        /\ message = EmptyQueryWarning

\* C5, amended: a blank text issues no request and no embedding and leaves
\* the caches alone; a whitespace-only text of at least one character gets
\* the empty-query warning, the empty text gets no message at all.
C5_BlankIssuesNothing ==
    (outcome # "init" /\ \A i \in 1..Len(user_input) : IsSpace(user_input[i])) =>
        /\ net_calls = <<>>
        /\ encode_runs = <<>>
        /\ scored_papers = <<>> /\ displayed = <<>> /\ exported = <<>>
        /\ outcome = (IF user_input = <<>> THEN "idle" ELSE "empty_query")
        /\ message = (IF user_input = <<>> THEN NoMessage ELSE EmptyQueryWarning)

\* A whitespace-only text is rejected in a session that has searched before.
C5_Witness ==
    /\ user_input = <<" ", "\t">>
    /\ outcome = "empty_query"
    /\ message = EmptyQueryWarning
    /\ net_calls = <<>>
    /\ ss_cache # <<>>

\* C6: when the three searches give empty lists, main ends in the no-results
\* state with an empty ranked list; the model is run on the query at most and
\* never on a list of paper texts, and nothing is displayed or exported.
C6_AllEmptyIsNoResults ==
    (Searching /\ AllPapers = <<>>) =>
        /\ outcome = "no_results"
        /\ message = NoPapersWarning
        /\ scored_papers = <<>> /\ displayed = <<>> /\ exported = <<>>
        /\ \A i \in 1..Len(encode_runs) : encode_runs[i] = <<Join(strip(user_input))>>

\* The three sources all failed in one run.
C6_Witness ==
    /\ {d[1] : d \in diag} = {"Semantic Scholar", "arXiv", "PubMed"}
    /\ Len(net_calls) = 3
    /\ outcome = "no_results"

\* C7: an efetch request directly follows an esearch request that succeeded
\* with a non-empty idlist; after an esearch that gives no id there is no
\* efetch and the search returns the empty list.
C7_FetchOnlyAfterIds ==
    \A i \in 1..Len(net_calls) :
        /\ net_calls[i].url = "pubmed_efetch" =>
              /\ i > 1
              /\ net_calls[i - 1].url = "pubmed_esearch"
              /\ net_calls[i - 1].ok
              /\ net_calls[i - 1].ids # <<>>
        /\ (net_calls[i].url = "pubmed_esearch" /\ net_calls[i].ids = <<>>) =>
              /\ "pubmed_efetch" \notin Urls(net_calls)
              /\ pubmed_papers = <<>>

\* An esearch succeeded with an empty idlist, without error.
C7_Witness ==
    /\ \E i \in 1..Len(net_calls) :
          net_calls[i].url = "pubmed_esearch" /\ net_calls[i].ok /\ net_calls[i].ids = <<>>
    /\ "PubMed" \notin {d[1] : d \in diag}
    /\ "pubmed_efetch" \notin Urls(net_calls)
    /\ outcome = "ranked"

\* C8 as claimed: whatever fields the records of a successful Semantic
\* Scholar answer lack, main ends without an exception, ranking the records
\* or reporting that there are none.
C8_MissingFieldsTolerated ==
    (Searching /\ "Semantic Scholar" \notin {d[1] : d \in diag}
       /\ arxiv_papers = <<>> /\ pubmed_papers = <<>>) =>
        outcome \in {"ranked", "no_results"}

\* C9: the filtered list is the concatenation of the three results in the
\* order Semantic Scholar, arXiv, PubMed with exactly the incomplete papers
\* left out, and the ranked list has every paper as often as the filtered
\* list has it.
C9_ConcatenatedNoDedup ==
    LET kept == {i \in 1..Len(AllPapers) : Complete(AllPapers[i])} IN
    Searching =>
        /\ Len(filtered_papers) = Cardinality(kept)
        /\ \A i \in kept :
              filtered_papers[Cardinality({j \in kept : j <= i})] = AllPapers[i]
        /\ outcome = "ranked" =>
              \A i \in 1..Len(filtered_papers) :
                 /\ Occurrences(filtered_papers[i], RankedPapers)
                       = Occurrences(filtered_papers[i], AllPapers)
                 /\ Occurrences(filtered_papers[i], [k \in 1..Len(displayed) |-> displayed[k].paper])
                       = Occurrences(filtered_papers[i], AllPapers)

\* One paper came from Semantic Scholar once and from arXiv twice, and is
\* ranked three times.
C9_Witness ==
    /\ outcome = "ranked"
    /\ ss_papers = <<P1>>
    /\ arxiv_papers = <<P1, P1>>
    /\ Occurrences(P1, RankedPapers) = 3

\* C10: once a search of a source failed for a key (stripped text, papers
\* per source), every later run with that key issues no request to that
\* source and gets the empty list for it.
C10_FailureIsSticky ==
    [][\A f \in failed :
          f[2] = Key' =>
             /\ PapersOf(f[1])' = <<>>
             /\ \A i \in 1..Len(net_calls') :
                   net_calls'[i].url \notin
                      (IF f[1] = "Semantic Scholar" THEN {"semantic_scholar"}
                       ELSE IF f[1] = "arXiv" THEN {"arxiv"}
                       ELSE {"pubmed_esearch", "pubmed_efetch"})]_vars

\* A run on a key for which Semantic Scholar failed earlier: no request, an
\* empty Semantic Scholar list, and the other sources' papers ranked.
C10_Witness ==
    /\ <<"Semantic Scholar", Key>> \in failed
    /\ net_calls = <<>>
    /\ ss_papers = <<>>
    /\ arxiv_papers # <<>>
    /\ outcome = "ranked"
    /\ repeated

====
